---- MODULE Spec2Model ----
(***************************************************************************)
(* Model of the OpenHands agent-server lifecycle coordinator               *)
(* (src/src/openhands/openhands.ts) running against a sandbox process      *)
(* table.  Each caller is one invocation of createOpenhandsServer; its pc  *)
(* names the sandbox call it is suspended on (an await).                   *)
(***************************************************************************)
EXTENDS Integers, Sequences, FiniteSets, TLC

\* ------------------------------------------------------------------ bounds
\* createOpenhandsServer calls made in one run
NCallers == 2

\* records in a listing given to the locator harness
MaxListLen == 2

\* listProcesses / getLogs / kill rejections the sandbox produces in one run
MaxSandboxFaults == 1

\* settled calls the application drops in order to call again
MaxRecalls == 1

\* requests the route handler has answered before the ones it is serving
MaxServed == 3

Callers == 1..NCallers

\* ------------------------------------------------------- program constants
DEFAULT_PORT == 8001

DEFAULT_AGENT_SERVER_DIR == <<"/container-server/software-agent-sdk">>

DEFAULT_AGENT_SERVER_PATH == DEFAULT_AGENT_SERVER_DIR \o <<"/.venv/bin/agent-server">>

\* ------------------------------------------------------------ input domains
\* Port 80 is a decimal prefix of 8001; 0 stands for an absent port option.
PortOptions == {0, 80}

NoDirectory == <<>>

\* The working directory a caller passes with each port option.
DirectoryFor(p) == IF p = 0 THEN NoDirectory ELSE <<"/work">>

NoHostname == ""

\* exposePort / hostname combinations of OpenhandsOptions
ExposeOptions ==
    { [exposePort |-> FALSE, hostname |-> NoHostname],
      [exposePort |-> TRUE,  hostname |-> NoHostname],
      [exposePort |-> TRUE,  hostname |-> "example.com"] }

OpenhandsOptions ==
    { [port |-> p, directory |-> DirectoryFor(p), exposePort |-> x.exposePort,
       hostname |-> x.hostname] : p \in PortOptions, x \in ExposeOptions }

\* What getLogs reports as the stderr of process id.
StderrOf(id) == IF id % 2 = 1 THEN "Traceback" ELSE ""

\* --------------------------------------------------------------- strings
\* A string is a sequence of tokens; a number is rendered digit by digit.
DigitTok == <<"0", "1", "2", "3", "4", "5", "6", "7", "8", "9">>

RECURSIVE Decimal(_)
Decimal(n) ==
    IF n < 10 THEN <<DigitTok[n + 1]>>
    ELSE Decimal(n \div 10) \o <<DigitTok[(n % 10) + 1]>>

\* String.prototype.includes
Includes(s, sub) ==
    \E i \in 0..(Len(s) - Len(sub)) : SubSeq(s, i + 1, i + Len(sub)) = sub

\* Variant of buildAgentServerCommand that passes the port with the short flag -p.
buildWithShortFlag(port, directory) ==
    LET command == DEFAULT_AGENT_SERVER_PATH
                     \o <<" ", "--host", " ", "0.0.0.0", " ", "-p", " ">>
                     \o Decimal(port)
    IN  IF directory # NoDirectory /\ directory # DEFAULT_AGENT_SERVER_DIR
        THEN <<"cd", " ">> \o directory \o <<" ", "&&", " ">> \o command
        ELSE command

buildAgentServerCommand(port, directory) ==
    LET command == DEFAULT_AGENT_SERVER_PATH
                     \o <<" ", "--host", " ", "0.0.0.0", " ", "--port", " ">>
                     \o Decimal(port)
    IN  IF directory # NoDirectory /\ directory # DEFAULT_AGENT_SERVER_DIR
        THEN <<"cd", " ">> \o directory \o <<" ", "&&", " ">> \o command
        ELSE command

\* -------------------------------------------------------------- records
NoProc == [id |-> 0, command |-> <<>>, status |-> "none"]

NoError == [type |-> "none", message |-> "", by |-> 0, at |-> "",
            port |-> 0, stderr |-> "", command |-> <<>>, processId |-> 0]

\* Errors carry the call that raised them (by) and the await of that call they were
\* raised at (at): two error objects are the same object iff both agree.
\* A raw error thrown by a sandbox capability, or the plain Error of line 203.
PlainError(c, at, message) ==
    [NoError EXCEPT !.type = "Error", !.message = message, !.by = c, !.at = at]

OpenhandsStartupError(c, at, message, port, stderr, proc) ==
    [type |-> "OpenhandsStartupError", message |-> message, by |-> c, at |-> at,
     port |-> port, stderr |-> stderr, command |-> proc.command, processId |-> proc.id]

NoResult == [kind |-> "pending", port |-> 0, previewUrl |-> <<>>, processId |-> 0,
             error |-> NoError]

NoOptions == [port |-> 0, directory |-> NoDirectory, exposePort |-> FALSE,
              hostname |-> NoHostname]

\* A Request: its pathname, and whether its host is that of a preview URL.
NoRequest == [path |-> <<>>, preview |-> FALSE]

\* OpenhandsHandlerOptions: OpenhandsOptions and the base path of the routes.
NoHandlerOptions == [port |-> 0, directory |-> NoDirectory, exposePort |-> FALSE,
                     hostname |-> NoHostname, basePath |-> <<>>]

\* An OpenhandsServer as findOpenhandsServer builds it; processId 0 stands for null.
NoServer == [port |-> 0, previewUrl |-> <<>>, processId |-> 0]

\* What the wrapped fetch handler settled with: kind is "json" for a Response.json
\* of the routes, "proxy" for the preview proxy's response, "user" for the user's
\* handler's response, "rejected" when the promise rejected.
NoResponse == [kind |-> "pending", status |-> 0, success |-> "absent",
               running |-> "absent", processId |-> 0, message |-> ""]

\* What a fetch settles with: a Response (status, body) or a rejection.
NoOutcome == [kind |-> "none", status |-> 0, body |-> ""]

NoFwd == [port |-> 0, request |-> "", called |-> FALSE, upstream |-> NoOutcome,
          returned |-> NoOutcome, nFetch |-> 0]

NoBuild == [port |-> 0, directory |-> NoDirectory, status |-> "none", command |-> <<>>,
            called |-> FALSE, again |-> <<>>, found |-> NoProc]

\* Where the responses given so far stand as a sequence start, stop, status:
\* the id the start route reported and the id the stop route killed.
NoSequence == [stage |-> "none", started |-> 0, killed |-> 0]

\* The responses are not followed as a sequence.
Untracked == [stage |-> "off", started |-> 0, killed |-> 0]

VARIABLES
    procs,            \* the sandbox process table, in listing order
    serving,          \* per process id: the port it accepts HTTP connections on, or 0
    exposed,          \* ports registered through sandbox.exposePort
    pc,               \* per caller: the await it is suspended on
    opts,             \* per caller: options of createOpenhandsServer
    existingProcess,  \* per caller: result of the first locate
    retryProcess,     \* per caller: result of the recheck locate
    startupError,     \* per caller: error caught at line 126
    process,          \* per caller: process returned by ensureAgentServer
    result,           \* per caller: settled value of createOpenhandsServer
    nList,            \* per caller: listProcesses calls made
    nStart,           \* per caller: startProcess calls made
    startedPid,       \* per caller: id of the process its startProcess returned
    doneBefore,       \* per caller: callers already settled when it was called
    probedOk,         \* ids of processes on which a waitForPort resolved
    startLog,         \* ports startProcess was invoked for; first-only conformance
    envFault,         \* a listProcesses / waitForPort / getLogs call has failed
    nFaults,          \* listProcesses / getLogs rejections so far
    loc,              \* locator harness: input table, port, and result
    closedAtCall,     \* per caller: ids of the processes already killed when it was called
    closed,           \* per caller: outcome of close() on the handle it was given
    nRecalls,         \* settled calls the application has dropped to call again
    handlerOptions,   \* options createOpenhandsHandler was built with
    request,          \* per caller: the HTTP request the route handler is serving
    server,           \* per caller: result of findOpenhandsServer
    response,         \* per caller: settled value of the wrapped fetch handler
    fwd,              \* forwarder harness: handle, request, and result
    build,            \* command builder harness: inputs, command, and match
    sequence          \* the route responses so far, as a start / stop / status sequence

callVars == <<pc, opts, existingProcess, retryProcess, startupError, process, result,
              nList, nStart, startedPid, doneBefore, closedAtCall>>

routeVars == <<handlerOptions, request, server, response, sequence>>

\* State of the handle's use, of the route handler and of the harnesses.
useVars == <<closed, nRecalls, handlerOptions, request, server, response, fwd, build,
            sequence>>

sandboxVars == <<procs, serving, exposed, probedOk, startLog, envFault, nFaults>>

vars == <<procs, serving, exposed, pc, opts, existingProcess, retryProcess, startupError,
          process, result, nList, nStart, startedPid, doneBefore, probedOk,
          startLog, envFault, nFaults, loc, closedAtCall, closed, nRecalls,
          handlerOptions, request, server, response, fwd, build, sequence>>

\* ------------------------------------------------------------- locator
\* The sandbox's own notion of a process that has not ended.
Live(proc) == proc.status = "starting" \/ proc.status = "running"

\* line 29
CommandMatches(command) == Includes(command, DEFAULT_AGENT_SERVER_PATH)

\* Variant of PortFlagMatches that knows the `--port=N` spelling only.
PortFlagEqualsOnly(command, port) ==
    Includes(command, <<"--port", "=">> \o Decimal(port))

\* lines 31-34
PortFlagMatches(command, port) ==
    \/ Includes(command, <<"--port", " ">> \o Decimal(port))
    \/ Includes(command, <<"--port", "=">> \o Decimal(port))

\* Variant of StatusMatches that accepts running processes only.
StatusRunningOnly(proc) == proc.status = "running"

\* line 35
StatusMatches(proc) == proc.status = "starting" \/ proc.status = "running"

RECURSIVE FindFrom(_, _, _)
FindFrom(processes, port, i) ==
    IF i > Len(processes) THEN NoProc
    ELSE IF /\ CommandMatches(processes[i].command)
            /\ PortFlagMatches(processes[i].command, port)
            /\ StatusMatches(processes[i])
         THEN processes[i]
         ELSE FindFrom(processes, port, i + 1)

\* Variant of findExistingAgentServer that keeps the last match of the listing.
RECURSIVE FindLastFrom(_, _, _)
FindLastFrom(processes, port, i) ==
    IF i < 1 THEN NoProc
    ELSE IF /\ CommandMatches(processes[i].command)
            /\ PortFlagMatches(processes[i].command, port)
            /\ StatusMatches(processes[i])
         THEN processes[i]
         ELSE FindLastFrom(processes, port, i - 1)

findLastAgentServer(processes, port) == FindLastFrom(processes, port, Len(processes))

findExistingAgentServer(processes, port) == FindFrom(processes, port, 1)

\* ------------------------------------------------------------- initial state
NoLoc == [procs |-> <<>>, port |-> 0, called |-> FALSE, result |-> NoProc,
          asked |-> FALSE, server |-> NoServer]

InitCoordinator ==
    /\ procs = <<>>
    /\ serving = <<>>
    /\ exposed = {}
    /\ pc = [c \in Callers |-> "idle"]
    /\ opts = [c \in Callers |-> NoOptions]
    /\ existingProcess = [c \in Callers |-> NoProc]
    /\ retryProcess = [c \in Callers |-> NoProc]
    /\ startupError = [c \in Callers |-> NoError]
    /\ process = [c \in Callers |-> NoProc]
    /\ result = [c \in Callers |-> NoResult]
    /\ nList = [c \in Callers |-> 0]
    /\ nStart = [c \in Callers |-> 0]
    /\ startedPid = [c \in Callers |-> 0]
    /\ doneBefore = [c \in Callers |-> {}]
    /\ closedAtCall = [c \in Callers |-> {}]
    /\ probedOk = {}
    /\ startLog = [invoked |-> {}, firstOnly |-> TRUE]
    /\ envFault = FALSE
    /\ nFaults = 0

\* No handle has been closed and no settled call dropped.
InitHandles ==
    /\ closed = [c \in Callers |-> "no"]
    /\ nRecalls = 0

\* No route handler has been built and no request received.
InitRoutes ==
    /\ handlerOptions = NoHandlerOptions
    /\ request = [c \in Callers |-> NoRequest]
    /\ server = [c \in Callers |-> NoServer]
    /\ response = [c \in Callers |-> NoResponse]
    /\ sequence = Untracked

Init ==
    /\ InitCoordinator
    /\ InitHandles
    /\ InitRoutes
    /\ loc = NoLoc
    /\ fwd = NoFwd
    /\ build = NoBuild

\* ------------------------------------------------- createOpenhandsServer
\* const port = options.port ?? DEFAULT_PORT
PortOf(options) == IF options.port = 0 THEN DEFAULT_PORT ELSE options.port

\* const directory = options.directory || DEFAULT_AGENT_SERVER_DIR
DirectoryOf(options) ==
    IF options.directory = NoDirectory THEN DEFAULT_AGENT_SERVER_DIR
    ELSE options.directory

Handle(c, pid, previewUrl) ==
    [kind |-> "handle", port |-> PortOf(opts[c]), previewUrl |-> previewUrl,
     processId |-> pid, error |-> NoError]

Failure(e) == [NoResult EXCEPT !.kind = "error", !.error = e]

\* Ids of the processes the sandbox has terminated on a kill.
Killed == {i \in 1..Len(procs) : procs[i].status = "killed"}

\* The call is entered; it runs synchronously up to its first await, the
\* listProcesses of the first locate.
Call(c, options) ==
    /\ pc[c] = "idle"
    /\ \A d \in Callers : d < c => pc[d] # "idle"
    /\ opts' = [opts EXCEPT ![c] = options]
    /\ pc' = [pc EXCEPT ![c] = "locate"]
    /\ doneBefore' = [doneBefore EXCEPT ![c] = {d \in Callers : pc[d] = "done"}]
    /\ closedAtCall' = [closedAtCall EXCEPT ![c] = Killed]
    /\ UNCHANGED <<existingProcess, retryProcess, startupError, process, result,
                   nList, nStart, startedPid, loc, useVars>>
    /\ UNCHANGED sandboxVars

\* ensureAgentServer returned proc: lines 198-227 up to the next await.
EnsureReturns(c, proc) ==
    /\ process' = [process EXCEPT ![c] = proc]
    /\ IF opts[c].exposePort
       THEN IF opts[c].hostname = NoHostname
            THEN /\ pc' = [pc EXCEPT ![c] = "done"]
                 /\ result' = [result EXCEPT ![c] =
                       Failure(PlainError(c, "createOpenhandsServer",
                                          "hostname is required when exposePort is true"))]
            ELSE /\ pc' = [pc EXCEPT ![c] = "exposePort"]
                 /\ result' = result
       ELSE /\ pc' = [pc EXCEPT ![c] = "done"]
            /\ result' = [result EXCEPT ![c] = Handle(c, proc.id, <<>>)]

\* Variant of EnsureThrows that still registers the port when the call asked for it.
EnsureThrowsExposing(c, e) ==
    /\ process' = process
    /\ IF opts[c].exposePort /\ opts[c].hostname # NoHostname
       THEN /\ pc' = [pc EXCEPT ![c] = "exposePort"]
            /\ result' = result
       ELSE /\ pc' = [pc EXCEPT ![c] = "done"]
            /\ result' = [result EXCEPT ![c] = Failure(e)]

\* ensureAgentServer threw e: the await of line 196 rejects.
EnsureThrows(c, e) ==
    /\ pc' = [pc EXCEPT ![c] = "done"]
    /\ result' = [result EXCEPT ![c] = Failure(e)]
    /\ process' = process

\* After a locate found proc (lines 97-121 and 130-154): wait if starting.
Reuse(c, proc, waitPc) ==
    IF proc.status = "starting"
    THEN /\ pc' = [pc EXCEPT ![c] = waitPc]
         /\ UNCHANGED <<process, result>>
    ELSE EnsureReturns(c, proc)

\* Variant of Locate that reuses a located process only when it is running.
LocateReusesRunningOnly(c) ==
    /\ pc[c] = "locate"
    /\ nList' = [nList EXCEPT ![c] = @ + 1]
    /\ LET found == findExistingAgentServer(procs, PortOf(opts[c]))
       IN  /\ existingProcess' = [existingProcess EXCEPT ![c] = found]
           /\ IF found # NoProc /\ found.status = "running"
              THEN EnsureReturns(c, found)
              ELSE /\ pc' = [pc EXCEPT ![c] = "startProcess"]
                   /\ UNCHANGED <<process, result>>
    /\ UNCHANGED <<closedAtCall, opts, retryProcess, startupError, nStart, startedPid,
                   doneBefore, loc, useVars>>
    /\ UNCHANGED sandboxVars

\* Variant of Locate that answers from the handle of an earlier call for the
\* same port, when there is one, instead of listing the processes.
LocateCached(c) ==
    /\ pc[c] = "locate"
    /\ LET earlier == {d \in doneBefore[c] :
                          /\ result[d].kind = "handle"
                          /\ result[d].port = PortOf(opts[c])}
           found == findExistingAgentServer(procs, PortOf(opts[c]))
       IN  IF earlier # {}
           THEN /\ nList' = nList
                /\ existingProcess' = existingProcess
                /\ EnsureReturns(c, process[CHOOSE d \in earlier : TRUE])
           ELSE /\ nList' = [nList EXCEPT ![c] = @ + 1]
                /\ existingProcess' = [existingProcess EXCEPT ![c] = found]
                /\ IF found # NoProc
                   THEN Reuse(c, found, "waitExisting")
                   ELSE /\ pc' = [pc EXCEPT ![c] = "startProcess"]
                        /\ UNCHANGED <<process, result>>
    /\ UNCHANGED <<closedAtCall, opts, retryProcess, startupError, nStart, startedPid,
                   doneBefore, loc, useVars>>
    /\ UNCHANGED sandboxVars

\* line 96: first locate
Locate(c) ==
    /\ pc[c] = "locate"
    /\ nList' = [nList EXCEPT ![c] = @ + 1]
    /\ LET found == findExistingAgentServer(procs, PortOf(opts[c]))
       IN  /\ existingProcess' = [existingProcess EXCEPT ![c] = found]
           /\ IF found # NoProc
              THEN Reuse(c, found, "waitExisting")
              ELSE /\ pc' = [pc EXCEPT ![c] = "startProcess"]
                   /\ UNCHANGED <<process, result>>
    /\ UNCHANGED <<closedAtCall, opts, retryProcess, startupError, nStart, startedPid,
                   doneBefore, loc, useVars>>
    /\ UNCHANGED sandboxVars

\* line 24 rejects inside the first locate: nothing catches it.
LocateThrows(c) ==
    /\ pc[c] = "locate"
    /\ nFaults < MaxSandboxFaults
    /\ nFaults' = nFaults + 1
    /\ nList' = [nList EXCEPT ![c] = @ + 1]
    /\ EnsureThrows(c, PlainError(c, "locate", "listProcesses failed"))
    /\ envFault' = TRUE
    /\ UNCHANGED <<closedAtCall, opts, existingProcess, retryProcess, startupError, nStart,
                   startedPid, doneBefore, loc, useVars>>
    /\ UNCHANGED <<procs, serving, exposed, probedOk, startLog>>

\* The current table entry of the process a snapshot refers to.
Current(proc) == procs[proc.id]

\* waitForPort(port, {mode: 'http'}) resolves when the process serves the port.
PortReady(proc, port) ==
    /\ Live(Current(proc))
    /\ serving[proc.id] = port

\* lines 100-105 / 133-138 resolve
WaitLocatedOk(c, at, proc) ==
    /\ pc[c] = at
    /\ PortReady(proc, PortOf(opts[c]))
    /\ probedOk' = probedOk \cup {proc.id}
    /\ EnsureReturns(c, proc)
    /\ UNCHANGED <<closedAtCall, opts, existingProcess, retryProcess, startupError, nList,
                   nStart, startedPid, doneBefore, loc, useVars>>
    /\ UNCHANGED <<procs, serving, exposed, startLog, envFault, nFaults>>

\* Variant of WaitLocatedFails whose error carries the port only.
WaitLocatedFailsBare(c, at, proc, logsOk) ==
    /\ pc[c] = at
    /\ ~PortReady(proc, PortOf(opts[c]))
    /\ logsOk \/ nFaults < MaxSandboxFaults
    /\ nFaults' = IF logsOk THEN nFaults ELSE nFaults + 1
    /\ envFault' = TRUE
    /\ EnsureThrows(c,
         IF logsOk
         THEN OpenhandsStartupError(c, at, "agent-server failed to start",
                                    PortOf(opts[c]), "", NoProc)
         ELSE PlainError(c, at, "getLogs failed"))
    /\ UNCHANGED <<closedAtCall, opts, existingProcess, retryProcess, startupError, nList,
                   nStart, startedPid, doneBefore, loc, useVars>>
    /\ UNCHANGED <<procs, serving, exposed, probedOk, startLog>>

\* lines 106-117 / 139-150: the wait rejects, getLogs resolves or rejects
WaitLocatedFails(c, at, proc, logsOk) ==
    /\ pc[c] = at
    /\ ~PortReady(proc, PortOf(opts[c]))
    /\ logsOk \/ nFaults < MaxSandboxFaults
    /\ nFaults' = IF logsOk THEN nFaults ELSE nFaults + 1
    /\ envFault' = TRUE
    /\ EnsureThrows(c,
         IF logsOk
         THEN OpenhandsStartupError(c, at, "agent-server failed to start",
                                    PortOf(opts[c]), StderrOf(proc.id), proc)
         ELSE PlainError(c, at, "getLogs failed"))
    /\ UNCHANGED <<closedAtCall, opts, existingProcess, retryProcess, startupError, nList,
                   nStart, startedPid, doneBefore, loc, useVars>>
    /\ UNCHANGED <<procs, serving, exposed, probedOk, startLog>>

WaitExistingOk(c) == WaitLocatedOk(c, "waitExisting", existingProcess[c])

WaitExistingFails(c, logsOk) ==
    WaitLocatedFails(c, "waitExisting", existingProcess[c], logsOk)

WaitRetryOk(c) == WaitLocatedOk(c, "waitRetry", retryProcess[c])

\* Variant of WaitRetryFails that rechecks again instead of failing the call.
WaitRetryRetries(c, logsOk) ==
    /\ pc[c] = "waitRetry"
    /\ ~PortReady(retryProcess[c], PortOf(opts[c]))
    /\ logsOk
    /\ envFault' = TRUE
    /\ pc' = [pc EXCEPT ![c] = "relocate"]
    /\ UNCHANGED <<closedAtCall, opts, existingProcess, retryProcess, startupError,
                   process, result, nList, nStart, startedPid, doneBefore, loc, useVars>>
    /\ UNCHANGED <<procs, serving, exposed, probedOk, startLog, nFaults>>

WaitRetryFails(c, logsOk) == WaitLocatedFails(c, "waitRetry", retryProcess[c], logsOk)

\* ---------------------------------------------------------- startAgentServer
NewProcess(command) ==
    [id |-> Len(procs) + 1, command |-> command, status |-> "starting"]

\* The Process object startProcess returned to caller c.
Started(c) == [Current([id |-> startedPid[c]]) EXCEPT !.status = "starting"]

\* lines 53-59: startProcess resolves with a new process
StartProcessOk(c) ==
    /\ pc[c] = "startProcess"
    /\ LET port == PortOf(opts[c])
           command == buildAgentServerCommand(port, DirectoryOf(opts[c]))
       IN  /\ procs' = Append(procs, NewProcess(command))
           /\ serving' = Append(serving, 0)
           /\ startLog' = [invoked |-> startLog.invoked \cup {port},
                           firstOnly |-> startLog.firstOnly /\ port \notin startLog.invoked]
    /\ startedPid' = [startedPid EXCEPT ![c] = Len(procs) + 1]
    /\ nStart' = [nStart EXCEPT ![c] = @ + 1]
    /\ pc' = [pc EXCEPT ![c] = "waitNew"]
    /\ UNCHANGED <<closedAtCall, opts, existingProcess, retryProcess, startupError,
                   process, result, nList, doneBefore, loc, useVars>>
    /\ UNCHANGED <<exposed, probedOk, envFault, nFaults>>

\* line 56 rejects: caught at line 126
StartProcessThrows(c) ==
    /\ pc[c] = "startProcess"
    /\ LET port == PortOf(opts[c])
       IN  startLog' = [invoked |-> startLog.invoked \cup {port},
                        firstOnly |-> startLog.firstOnly /\ port \in startLog.invoked]
    /\ nStart' = [nStart EXCEPT ![c] = @ + 1]
    /\ startupError' = [startupError EXCEPT ![c] =
           PlainError(c, "startProcess", "startProcess failed")]
    /\ pc' = [pc EXCEPT ![c] = "relocate"]
    /\ UNCHANGED <<closedAtCall, opts, existingProcess, retryProcess, process, result,
                   nList, startedPid, doneBefore, loc, useVars>>
    /\ UNCHANGED <<procs, serving, exposed, probedOk, envFault, nFaults>>

\* Variant of WaitNewFails that waits for the port once more when the wait rejects.
WaitNewPolls(c, logsOk) ==
    /\ pc[c] = "waitNew"
    /\ ~PortReady(Started(c), PortOf(opts[c]))
    /\ logsOk
    /\ envFault' = TRUE
    /\ pc' = [pc EXCEPT ![c] = "startProcess"]
    /\ UNCHANGED <<closedAtCall, opts, existingProcess, retryProcess, startupError,
                   process, result, nList, nStart, startedPid, doneBefore, loc, useVars>>
    /\ UNCHANGED <<procs, serving, exposed, probedOk, startLog, nFaults>>

\* lines 62-67 resolve; line 82 and line 125 return the process
WaitNewOk(c) ==
    /\ pc[c] = "waitNew"
    /\ PortReady(Started(c), PortOf(opts[c]))
    /\ probedOk' = probedOk \cup {startedPid[c]}
    /\ EnsureReturns(c, Started(c))
    /\ UNCHANGED <<closedAtCall, opts, existingProcess, retryProcess, startupError, nList,
                   nStart, startedPid, doneBefore, loc, useVars>>
    /\ UNCHANGED <<procs, serving, exposed, startLog, envFault, nFaults>>

\* lines 68-79: the wait rejects; the error thrown is caught at line 126
WaitNewFails(c, logsOk) ==
    /\ pc[c] = "waitNew"
    /\ ~PortReady(Started(c), PortOf(opts[c]))
    /\ logsOk \/ nFaults < MaxSandboxFaults
    /\ nFaults' = IF logsOk THEN nFaults ELSE nFaults + 1
    /\ envFault' = TRUE
    /\ startupError' = [startupError EXCEPT ![c] =
         IF logsOk
         THEN OpenhandsStartupError(c, "waitNew", "agent-server failed to start on port",
                                    PortOf(opts[c]), StderrOf(startedPid[c]), Started(c))
         ELSE PlainError(c, "waitNew", "getLogs failed")]
    /\ pc' = [pc EXCEPT ![c] = "relocate"]
    /\ UNCHANGED <<closedAtCall, opts, existingProcess, retryProcess, process, result,
                   nList, nStart, startedPid, doneBefore, loc, useVars>>
    /\ UNCHANGED <<procs, serving, exposed, probedOk, startLog>>

\* Variant of Relocate that rethrows the caught error whatever the recheck finds.
RelocateRethrows(c) ==
    /\ pc[c] = "relocate"
    /\ nList' = [nList EXCEPT ![c] = @ + 1]
    /\ retryProcess' = [retryProcess EXCEPT ![c] =
           findExistingAgentServer(procs, PortOf(opts[c]))]
    /\ EnsureThrows(c, startupError[c])
    /\ UNCHANGED <<closedAtCall, opts, existingProcess, startupError, nStart, startedPid,
                   doneBefore, loc, useVars>>
    /\ UNCHANGED sandboxVars

\* lines 126-157: the recheck after a failed spawn-and-probe
Relocate(c) ==
    /\ pc[c] = "relocate"
    /\ nList' = [nList EXCEPT ![c] = @ + 1]
    /\ LET found == findExistingAgentServer(procs, PortOf(opts[c]))
       IN  /\ retryProcess' = [retryProcess EXCEPT ![c] = found]
           /\ IF found # NoProc
              THEN Reuse(c, found, "waitRetry")
              ELSE EnsureThrows(c, startupError[c])
    /\ UNCHANGED <<closedAtCall, opts, existingProcess, startupError, nStart, startedPid,
                   doneBefore, loc, useVars>>
    /\ UNCHANGED sandboxVars

\* line 24 rejects inside the recheck: it replaces the caught error
RelocateThrows(c) ==
    /\ pc[c] = "relocate"
    /\ nFaults < MaxSandboxFaults
    /\ nFaults' = nFaults + 1
    /\ nList' = [nList EXCEPT ![c] = @ + 1]
    /\ EnsureThrows(c, PlainError(c, "relocate", "listProcesses failed"))
    /\ envFault' = TRUE
    /\ UNCHANGED <<closedAtCall, opts, existingProcess, retryProcess, startupError, nStart,
                   startedPid, doneBefore, loc, useVars>>
    /\ UNCHANGED <<procs, serving, exposed, probedOk, startLog>>

\* ------------------------------------------------------------ port exposure
PreviewUrl(port, hostname) == <<"https://">> \o Decimal(port) \o <<"-", hostname>>

\* lines 208-212, 219-227
ExposePortOk(c) ==
    /\ pc[c] = "exposePort"
    /\ exposed' = exposed \cup {PortOf(opts[c])}
    /\ result' = [result EXCEPT ![c] =
           Handle(c, process[c].id, PreviewUrl(PortOf(opts[c]), opts[c].hostname))]
    /\ pc' = [pc EXCEPT ![c] = "done"]
    /\ UNCHANGED <<closedAtCall, opts, existingProcess, retryProcess, startupError,
                   process, nList, nStart, startedPid, doneBefore, loc, useVars>>
    /\ UNCHANGED <<procs, serving, probedOk, startLog, envFault, nFaults>>

\* Variant of ExposePortThrows that lets the rejection of exposePort fail the call.
ExposePortPropagates(c) ==
    /\ pc[c] = "exposePort"
    /\ result' = [result EXCEPT ![c] =
           Failure(PlainError(c, "exposePort", "exposePort failed"))]
    /\ pc' = [pc EXCEPT ![c] = "done"]
    /\ UNCHANGED <<closedAtCall, opts, existingProcess, retryProcess, startupError,
                   process, nList, nStart, startedPid, doneBefore, loc, useVars>>
    /\ UNCHANGED sandboxVars

\* lines 213-216, 219-227: the failure is logged, previewUrl stays undefined
ExposePortThrows(c) ==
    /\ pc[c] = "exposePort"
    /\ result' = [result EXCEPT ![c] = Handle(c, process[c].id, <<>>)]
    /\ pc' = [pc EXCEPT ![c] = "done"]
    /\ UNCHANGED <<closedAtCall, opts, existingProcess, retryProcess, startupError,
                   process, nList, nStart, startedPid, doneBefore, loc, useVars>>
    /\ UNCHANGED sandboxVars

\* ------------------------------------------------------------ handle.close
\* process.kill('SIGTERM') as the sandbox carries it out: a starting or running
\* process is terminated and listed as killed; one that has ended stays as it is.
Kill(table, id) ==
    [table EXCEPT ![id].status = IF Live(table[id]) THEN "killed" ELSE @]

\* Variant of CloseOk that spares a process another handle still references.
CloseUnlessShared(c) ==
    /\ pc[c] = "done"
    /\ result[c].kind = "handle"
    /\ closed[c] = "no"
    /\ LET shared == \E d \in Callers \ {c} :
                         /\ result[d].kind = "handle"
                         /\ result[d].processId = process[c].id
       IN  /\ procs' = IF shared THEN procs ELSE Kill(procs, process[c].id)
           /\ serving' = IF shared THEN serving
                         ELSE [serving EXCEPT ![process[c].id] = 0]
    /\ closed' = [closed EXCEPT ![c] = "resolved"]
    /\ UNCHANGED <<exposed, probedOk, startLog, envFault, nFaults>>
    /\ UNCHANGED <<nRecalls, routeVars, loc, fwd, build>>
    /\ UNCHANGED callVars

\* lines 224-226: close() on the handle the call returned; kill resolves
CloseOk(c) ==
    /\ pc[c] = "done"
    /\ result[c].kind = "handle"
    /\ closed[c] = "no"
    /\ procs' = Kill(procs, process[c].id)
    /\ serving' = [serving EXCEPT ![process[c].id] = 0]
    /\ closed' = [closed EXCEPT ![c] = "resolved"]
    /\ UNCHANGED <<exposed, probedOk, startLog, envFault, nFaults>>
    /\ UNCHANGED <<nRecalls, routeVars, loc, fwd, build>>
    /\ UNCHANGED callVars

\* line 225 rejects: the sandbox did not deliver the signal
CloseThrows(c) ==
    /\ pc[c] = "done"
    /\ result[c].kind = "handle"
    /\ closed[c] = "no"
    /\ nFaults < MaxSandboxFaults
    /\ nFaults' = nFaults + 1
    /\ closed' = [closed EXCEPT ![c] = "rejected"]
    /\ UNCHANGED <<procs, serving, exposed, probedOk, startLog, envFault>>
    /\ UNCHANGED <<nRecalls, routeVars, loc, fwd, build>>
    /\ UNCHANGED callVars

\* The application is done with a handle it has closed: its next fetch
\* invocation, made when the calls before it have settled, makes a new
\* createOpenhandsServer call from scratch.
Forget(c) ==
    /\ pc[c] = "done"
    /\ closed[c] # "no"
    /\ \A d \in Callers : pc[d] = "done"
    /\ nRecalls < MaxRecalls
    /\ nRecalls' = nRecalls + 1
    /\ pc' = [pc EXCEPT ![c] = "idle"]
    /\ opts' = [opts EXCEPT ![c] = NoOptions]
    /\ existingProcess' = [existingProcess EXCEPT ![c] = NoProc]
    /\ retryProcess' = [retryProcess EXCEPT ![c] = NoProc]
    /\ startupError' = [startupError EXCEPT ![c] = NoError]
    /\ process' = [process EXCEPT ![c] = NoProc]
    /\ result' = [result EXCEPT ![c] = NoResult]
    /\ nList' = [nList EXCEPT ![c] = 0]
    /\ nStart' = [nStart EXCEPT ![c] = 0]
    /\ startedPid' = [startedPid EXCEPT ![c] = 0]
    /\ doneBefore' = [doneBefore EXCEPT ![c] = {}]
    /\ closedAtCall' = [closedAtCall EXCEPT ![c] = {}]
    /\ closed' = [closed EXCEPT ![c] = "no"]
    /\ UNCHANGED sandboxVars
    /\ UNCHANGED <<routeVars, loc, fwd, build>>

\* ------------------------------------------------------------ route handler
\* url.hostname of the requests the Worker receives
RequestHostname == "worker.example"

\* `${basePath}/start-openhands` and the like
RoutePath(name) == handlerOptions.basePath \o <<name>>

\* const port = options.port ?? 8001
RoutePort == IF handlerOptions.port = 0 THEN 8001 ELSE handlerOptions.port

\* The options the start route passes to createOpenhandsServer.
StartOptions ==
    LET hostname == IF handlerOptions.hostname # NoHostname
                    THEN handlerOptions.hostname ELSE RequestHostname
    IN  [port |-> handlerOptions.port, directory |-> handlerOptions.directory,
         exposePort |-> handlerOptions.exposePort,
         hostname |-> IF handlerOptions.exposePort THEN hostname ELSE NoHostname]

Json(status, success, running, processId, message) ==
    [kind |-> "json", status |-> status, success |-> success, running |-> running,
     processId |-> processId, message |-> message]

Rejected(message) == [NoResponse EXCEPT !.kind = "rejected", !.message = message]

\* Variant of ServerMatches that accepts running processes only.
ServerMatchesRunningOnly(proc, port) ==
    /\ Includes(proc.command, DEFAULT_AGENT_SERVER_PATH)
    /\ \/ Includes(proc.command, <<"--port", " ">> \o Decimal(port))
       \/ Includes(proc.command, <<"--port", "=">> \o Decimal(port))
    /\ proc.status = "running"

\* part_001 lines 44-48
ServerMatches(proc, port) ==
    /\ Includes(proc.command, DEFAULT_AGENT_SERVER_PATH)
    /\ \/ Includes(proc.command, <<"--port", " ">> \o Decimal(port))
       \/ Includes(proc.command, <<"--port", "=">> \o Decimal(port))
    /\ (proc.status = "running" \/ proc.status = "starting")

\* part_001 lines 42-75: the process of the handle findOpenhandsServer returns
RECURSIVE FindServerFrom(_, _, _)
FindServerFrom(processes, port, i) ==
    IF i > Len(processes) THEN NoProc
    ELSE IF ServerMatches(processes[i], port) THEN processes[i]
         ELSE FindServerFrom(processes, port, i + 1)

findOpenhandsServer(processes, port) == FindServerFrom(processes, port, 1)

\* The Worker serves its requests one at a time, each in the first free slot.
Free(c) == \A d \in Callers : pc[d] = "idle" /\ c <= d

\* part_001 lines 98-103 run and the proxyToSandbox call of line 106 is made.
Receive(c, req) ==
    /\ Free(c)
    /\ request' = [request EXCEPT ![c] = req]
    /\ pc' = [pc EXCEPT ![c] = "proxyToSandbox"]
    /\ UNCHANGED <<opts, existingProcess, retryProcess, startupError, process, result,
                   nList, nStart, startedPid, doneBefore, closedAtCall>>
    /\ UNCHANGED sandboxVars
    /\ UNCHANGED <<closed, nRecalls, handlerOptions, server, response, loc, fwd, build,
                   sequence>>

\* The sequence after the request of c was answered with r: a successful start
\* opens it, a successful stop after the start and a status after the stop
\* continue it, a failed start or stop ends it.
Tracked(c, r) ==
    IF sequence = Untracked \/ r.kind # "json" THEN sequence
    ELSE IF request[c].path = RoutePath("/start-openhands")
    THEN IF r.status = 200
         THEN [stage |-> "started", started |-> r.processId,
               killed |-> IF sequence.stage \in {"stopped", "checked"}
                          THEN sequence.killed ELSE 0]
         ELSE NoSequence
    ELSE IF request[c].path = RoutePath("/stop-openhands")
    THEN IF r.status = 200 /\ sequence.stage = "started"
         THEN [sequence EXCEPT !.stage = "stopped", !.killed = r.processId]
         ELSE NoSequence
    ELSE IF sequence.stage = "stopped" /\ r.status = 200 /\ r.running = "false"
         THEN [sequence EXCEPT !.stage = "checked"]
         ELSE sequence

\* The handler's promise settles with r.
Respond(c, r) ==
    /\ response' = [response EXCEPT ![c] = r]
    /\ pc' = [pc EXCEPT ![c] = "responded"]
    /\ sequence' = Tracked(c, r)

\* part_001 line 102 or 103 throws (getSandboxName, getSandbox): no try encloses them
ReceiveThrows(c, req, message) ==
    /\ Free(c)
    /\ nFaults < MaxSandboxFaults
    /\ nFaults' = nFaults + 1
    /\ request' = [request EXCEPT ![c] = req]
    /\ Respond(c, Rejected(message))
    /\ UNCHANGED <<opts, existingProcess, retryProcess, startupError, process, result,
                   nList, nStart, startedPid, doneBefore, closedAtCall>>
    /\ UNCHANGED <<procs, serving, exposed, probedOk, startLog, envFault>>
    /\ UNCHANGED <<closed, nRecalls, handlerOptions, server, loc, fwd, build>>

\* Variant of ProxyToSandbox that matches the three routes before it looks at the
\* preview proxy's response.
ProxyToSandboxRoutesFirst(c) ==
    /\ pc[c] = "proxyToSandbox"
    /\ IF request[c].path = RoutePath("/start-openhands")
       THEN /\ opts' = [opts EXCEPT ![c] = StartOptions]
            /\ pc' = [pc EXCEPT ![c] = "locate"]
            /\ doneBefore' = [doneBefore EXCEPT ![c] =
                                 {d \in Callers : pc[d] \in {"done", "responded"}}]
            /\ closedAtCall' = [closedAtCall EXCEPT ![c] = Killed]
            /\ UNCHANGED <<response, sequence>>
       ELSE IF \/ request[c].path = RoutePath("/stop-openhands")
               \/ request[c].path = RoutePath("/openhands-status")
       THEN /\ pc' = [pc EXCEPT ![c] = "findServer"]
            /\ UNCHANGED <<opts, doneBefore, closedAtCall, response, sequence>>
       ELSE IF request[c].preview
       THEN /\ Respond(c, [NoResponse EXCEPT !.kind = "proxy", !.status = 200])
            /\ UNCHANGED <<opts, doneBefore, closedAtCall>>
       ELSE /\ Respond(c, [NoResponse EXCEPT !.kind = "user", !.status = 200])
            /\ UNCHANGED <<opts, doneBefore, closedAtCall>>
    /\ UNCHANGED <<existingProcess, retryProcess, startupError, process, result,
                   nList, nStart, startedPid>>
    /\ UNCHANGED sandboxVars
    /\ UNCHANGED <<closed, nRecalls, handlerOptions, request, server, loc, fwd, build>>

\* part_001 lines 106-120, 145-148, 168-171, 207-208 and 251-257: proxyToSandbox
\* resolves; the handler runs up to its next await or to its return
ProxyToSandbox(c) ==
    /\ pc[c] = "proxyToSandbox"
    /\ IF request[c].preview
       THEN /\ Respond(c, [NoResponse EXCEPT !.kind = "proxy", !.status = 200])
            /\ UNCHANGED <<opts, doneBefore, closedAtCall>>
       ELSE IF request[c].path = RoutePath("/start-openhands")
       THEN /\ opts' = [opts EXCEPT ![c] = StartOptions]
            /\ pc' = [pc EXCEPT ![c] = "locate"]
            /\ doneBefore' = [doneBefore EXCEPT ![c] =
                                 {d \in Callers : pc[d] \in {"done", "responded"}}]
            /\ closedAtCall' = [closedAtCall EXCEPT ![c] = Killed]
            /\ UNCHANGED <<response, sequence>>
       ELSE IF \/ request[c].path = RoutePath("/stop-openhands")
               \/ request[c].path = RoutePath("/openhands-status")
       THEN /\ pc' = [pc EXCEPT ![c] = "findServer"]
            /\ UNCHANGED <<opts, doneBefore, closedAtCall, response, sequence>>
       ELSE /\ Respond(c, [NoResponse EXCEPT !.kind = "user", !.status = 200])
            /\ UNCHANGED <<opts, doneBefore, closedAtCall>>
    /\ UNCHANGED <<existingProcess, retryProcess, startupError, process, result,
                   nList, nStart, startedPid>>
    /\ UNCHANGED sandboxVars
    /\ UNCHANGED <<closed, nRecalls, handlerOptions, request, server, loc, fwd, build>>

\* part_001 line 106 rejects: no try encloses it
ProxyToSandboxThrows(c) ==
    /\ pc[c] = "proxyToSandbox"
    /\ nFaults < MaxSandboxFaults
    /\ nFaults' = nFaults + 1
    /\ Respond(c, Rejected("proxyToSandbox failed"))
    /\ UNCHANGED <<opts, existingProcess, retryProcess, startupError, process, result,
                   nList, nStart, startedPid, doneBefore, closedAtCall>>
    /\ UNCHANGED <<procs, serving, exposed, probedOk, startLog, envFault>>
    /\ UNCHANGED <<closed, nRecalls, handlerOptions, request, server, loc, fwd, build>>

\* part_001 lines 117-142: createOpenhandsServer settled
StartResponds(c) ==
    /\ pc[c] = "done"
    /\ request[c].path = RoutePath("/start-openhands")
    /\ Respond(c, IF result[c].kind = "handle"
                  THEN Json(200, "true", "absent", result[c].processId, "")
                  ELSE Json(500, "false", "absent", 0, result[c].error.message))
    /\ UNCHANGED <<opts, existingProcess, retryProcess, startupError, process, result,
                   nList, nStart, startedPid, doneBefore, closedAtCall>>
    /\ UNCHANGED sandboxVars
    /\ UNCHANGED <<closed, nRecalls, handlerOptions, request, server, loc, fwd, build>>

\* part_001 lines 40-49 and 75, then 153-156 or 172-177: listProcesses resolves
FindServer(c) ==
    /\ pc[c] = "findServer"
    /\ nList' = [nList EXCEPT ![c] = @ + 1]
    /\ LET found == findOpenhandsServer(procs, RoutePort)
       IN  IF found # NoProc
           THEN /\ server' = [server EXCEPT ![c] =
                       [port |-> RoutePort, previewUrl |-> <<>>, processId |-> found.id]]
                /\ pc' = [pc EXCEPT ![c] = "getExposedPorts"]
                /\ UNCHANGED <<response, sequence>>
           ELSE /\ server' = server
                /\ Respond(c, IF request[c].path = RoutePath("/stop-openhands")
                              THEN Json(404, "false", "absent", 0, "No server running")
                              ELSE Json(200, "true", "false", 0, ""))
    /\ UNCHANGED <<opts, existingProcess, retryProcess, startupError, process, result,
                   nStart, startedPid, doneBefore, closedAtCall>>
    /\ UNCHANGED sandboxVars
    /\ UNCHANGED <<closed, nRecalls, handlerOptions, request, loc, fwd, build>>

\* A sandbox call inside the try of the stop or status route rejects:
\* part_001 lines 157-164, 196-203
RouteCatches(c, at, message) ==
    /\ pc[c] = at
    /\ nFaults < MaxSandboxFaults
    /\ nFaults' = nFaults + 1
    /\ Respond(c, Json(500, "false", "absent", 0, message))
    /\ UNCHANGED <<opts, existingProcess, retryProcess, startupError, process, result,
                   nList, nStart, startedPid, doneBefore, closedAtCall>>
    /\ UNCHANGED <<procs, serving, exposed, probedOk, startLog, envFault>>
    /\ UNCHANGED <<closed, nRecalls, handlerOptions, request, server, loc, fwd, build>>

\* part_001 line 40 rejects
FindServerThrows(c) == RouteCatches(c, "findServer", "listProcesses failed")

\* part_001 lines 51-71, then 150 or 180: getExposedPorts('') resolves, or
\* rejects and is ignored
GetExposedPorts(c, ok) ==
    /\ pc[c] = "getExposedPorts"
    /\ ok \/ nFaults < MaxSandboxFaults
    /\ nFaults' = IF ok THEN nFaults ELSE nFaults + 1
    /\ server' = [server EXCEPT ![c].previewUrl =
                     IF ok /\ RoutePort \in exposed
                     THEN PreviewUrl(RoutePort, "") ELSE <<>>]
    /\ pc' = [pc EXCEPT ![c] =
                 IF request[c].path = RoutePath("/stop-openhands")
                 THEN "kill" ELSE "statusList"]
    /\ UNCHANGED <<opts, existingProcess, retryProcess, startupError, process, result,
                   nList, nStart, startedPid, doneBefore, closedAtCall>>
    /\ UNCHANGED <<procs, serving, exposed, probedOk, startLog, envFault>>
    /\ UNCHANGED <<closed, nRecalls, handlerOptions, request, response, loc, fwd, build,
                   sequence>>

\* Variant of StopKills that answers without sending the signal.
StopWithoutKill(c) ==
    /\ pc[c] = "kill"
    /\ Respond(c, Json(200, "true", "absent", server[c].processId, "Server stopped"))
    /\ UNCHANGED <<opts, existingProcess, retryProcess, startupError, process, result,
                   nList, nStart, startedPid, doneBefore, closedAtCall>>
    /\ UNCHANGED sandboxVars
    /\ UNCHANGED <<closed, nRecalls, handlerOptions, request, server, loc, fwd, build>>

\* part_001 lines 68-70 and 150-151: server.close() resolves
StopKills(c) ==
    /\ pc[c] = "kill"
    /\ procs' = Kill(procs, server[c].processId)
    /\ serving' = [serving EXCEPT ![server[c].processId] = 0]
    /\ Respond(c, Json(200, "true", "absent", server[c].processId, "Server stopped"))
    /\ UNCHANGED <<opts, existingProcess, retryProcess, startupError, process, result,
                   nList, nStart, startedPid, doneBefore, closedAtCall>>
    /\ UNCHANGED <<exposed, probedOk, startLog, envFault, nFaults>>
    /\ UNCHANGED <<closed, nRecalls, handlerOptions, request, server, loc, fwd, build>>

\* part_001 line 69 rejects
StopKillThrows(c) == RouteCatches(c, "kill", "kill failed")

\* part_001 lines 180-195: the second listProcesses resolves
StatusLists(c) ==
    /\ pc[c] = "statusList"
    /\ nList' = [nList EXCEPT ![c] = @ + 1]
    /\ Respond(c, Json(200, "true",
                       IF procs[server[c].processId].status = "running"
                       THEN "true" ELSE "false",
                       server[c].processId, ""))
    /\ UNCHANGED <<opts, existingProcess, retryProcess, startupError, process, result,
                   nStart, startedPid, doneBefore, closedAtCall>>
    /\ UNCHANGED sandboxVars
    /\ UNCHANGED <<closed, nRecalls, handlerOptions, request, server, loc, fwd, build>>

\* part_001 line 180 rejects
StatusListThrows(c) == RouteCatches(c, "statusList", "listProcesses failed")

\* The fetch invocation is over; the Worker takes the next request.
Served(c) ==
    /\ pc[c] = "responded"
    /\ nRecalls < MaxServed
    /\ nRecalls' = nRecalls + 1
    /\ pc' = [pc EXCEPT ![c] = "idle"]
    /\ opts' = [opts EXCEPT ![c] = NoOptions]
    /\ existingProcess' = [existingProcess EXCEPT ![c] = NoProc]
    /\ retryProcess' = [retryProcess EXCEPT ![c] = NoProc]
    /\ startupError' = [startupError EXCEPT ![c] = NoError]
    /\ process' = [process EXCEPT ![c] = NoProc]
    /\ result' = [result EXCEPT ![c] = NoResult]
    /\ nList' = [nList EXCEPT ![c] = 0]
    /\ nStart' = [nStart EXCEPT ![c] = 0]
    /\ startedPid' = [startedPid EXCEPT ![c] = 0]
    /\ doneBefore' = [doneBefore EXCEPT ![c] = {}]
    /\ closedAtCall' = [closedAtCall EXCEPT ![c] = {}]
    /\ request' = [request EXCEPT ![c] = NoRequest]
    /\ server' = [server EXCEPT ![c] = NoServer]
    /\ response' = [response EXCEPT ![c] = NoResponse]
    /\ UNCHANGED sandboxVars
    /\ UNCHANGED <<closed, handlerOptions, loc, fwd, build, sequence>>

\* ------------------------------------------------ the sandbox's processes
\* Some call is still to be made or in flight.  While every call has settled
\* no operation reads the process table, so the processes' steps are left to
\* the time an operation is under way.
Observed == \E c \in Callers : pc[c] # "done"

\* The sandbox reports a spawned process as running.
ProcessRuns(i) ==
    /\ Observed
    /\ i \in 1..Len(procs)
    /\ procs[i].status = "starting"
    /\ procs' = [procs EXCEPT ![i].status = "running"]
    /\ UNCHANGED <<serving, exposed, probedOk, startLog, envFault, nFaults, loc, useVars>>
    /\ UNCHANGED callVars

\* The port the launched binary binds: the value of its --port argument.
EndsWith(s, suffix) ==
    /\ Len(suffix) <= Len(s)
    /\ SubSeq(s, Len(s) - Len(suffix) + 1, Len(s)) = suffix

BindsPort(command, port) == EndsWith(command, <<" ", "--port", " ">> \o Decimal(port))

\* The server inside the process begins to accept HTTP connections.
ProcessListens(i, port) ==
    /\ Observed
    /\ i \in 1..Len(procs)
    /\ Live(procs[i])
    /\ serving[i] = 0
    /\ BindsPort(procs[i].command, port)
    /\ serving' = [serving EXCEPT ![i] = port]
    /\ UNCHANGED <<procs, exposed, probedOk, startLog, envFault, nFaults, loc, useVars>>
    /\ UNCHANGED callVars

\* The process ends on its own (it crashes, or cannot bind its port).
ProcessExits(i) ==
    /\ Observed
    /\ i \in 1..Len(procs)
    /\ Live(procs[i])
    /\ procs' = [procs EXCEPT ![i].status = "failed"]
    /\ serving' = [serving EXCEPT ![i] = 0]
    /\ UNCHANGED <<exposed, probedOk, startLog, envFault, nFaults, loc, useVars>>
    /\ UNCHANGED callVars

\* ------------------------------------------------------------ specification
Next ==
    \/ \E c \in Callers, options \in OpenhandsOptions : Call(c, options)
    \/ \E c \in Callers : Locate(c)
    \/ \E c \in Callers : LocateThrows(c)
    \/ \E c \in Callers : WaitExistingOk(c)
    \/ \E c \in Callers, logsOk \in BOOLEAN : WaitExistingFails(c, logsOk)
    \/ \E c \in Callers : StartProcessOk(c)
    \/ \E c \in Callers : StartProcessThrows(c)
    \/ \E c \in Callers : WaitNewOk(c)
    \/ \E c \in Callers, logsOk \in BOOLEAN : WaitNewFails(c, logsOk)
    \/ \E c \in Callers : Relocate(c)
    \/ \E c \in Callers : RelocateThrows(c)
    \/ \E c \in Callers : WaitRetryOk(c)
    \/ \E c \in Callers, logsOk \in BOOLEAN : WaitRetryFails(c, logsOk)
    \/ \E c \in Callers : ExposePortOk(c)
    \/ \E c \in Callers : ExposePortThrows(c)
    \/ \E i \in 1..Len(procs) : ProcessRuns(i)
    \/ \E i \in 1..Len(procs), o \in OpenhandsOptions : ProcessListens(i, PortOf(o))
    \/ \E i \in 1..Len(procs) : ProcessExits(i)

Spec == Init /\ [][Next]_vars

\* The sandbox call that call c is suspended on settles: it resolves or rejects.
Settles(c) ==
    \/ Locate(c)
    \/ LocateThrows(c)
    \/ WaitExistingOk(c)
    \/ \E logsOk \in BOOLEAN : WaitExistingFails(c, logsOk)
    \/ StartProcessOk(c)
    \/ StartProcessThrows(c)
    \/ WaitNewOk(c)
    \/ \E logsOk \in BOOLEAN : WaitNewFails(c, logsOk)
    \/ Relocate(c)
    \/ RelocateThrows(c)
    \/ WaitRetryOk(c)
    \/ \E logsOk \in BOOLEAN : WaitRetryFails(c, logsOk)
    \/ ExposePortOk(c)
    \/ ExposePortThrows(c)

\* Every sandbox call returns or rejects (waitForPort rejects at its timeout):
\* an await of a call does not stay pending forever.  Nothing is assumed of the
\* times calls are made or of the processes.
\* Valid calls for the default port, the port every caller shares.
SharedPortOptions ==
    {o \in OpenhandsOptions : o.port = 0 /\ (o.exposePort => o.hostname # NoHostname)}

NextLive ==
    \/ \E c \in Callers, options \in SharedPortOptions : Call(c, options)
    \/ \E c \in Callers : Settles(c)
    \/ \E i \in 1..Len(procs) : ProcessRuns(i)
    \/ \E i \in 1..Len(procs) : ProcessListens(i, DEFAULT_PORT)
    \/ \E i \in 1..Len(procs) : ProcessExits(i)

SpecLive == Init /\ [][NextLive]_vars /\ \A c \in Callers : WF_vars(Settles(c))

\* ------------------------------------------------------- locator harness
\* findExistingAgentServer applied to arbitrary process listings.
LocStatuses == {"starting", "running", "stopped", "failed"}

LocCommands ==
    { buildAgentServerCommand(DEFAULT_PORT, NoDirectory),
      buildAgentServerCommand(80, <<"/work">>),
      buildAgentServerCommand(9001, NoDirectory),
      DEFAULT_AGENT_SERVER_PATH \o <<" ", "--port", "=">> \o Decimal(DEFAULT_PORT),
      DEFAULT_AGENT_SERVER_PATH \o <<" ", "--host", " ", "0.0.0.0">>,
      <<"python", " ", "-m", " ", "http.server", " ", "--port", " ">> \o Decimal(DEFAULT_PORT) }

LocPorts == {80, 7000, 9001, DEFAULT_PORT}

LocListing(f) ==
    [i \in DOMAIN f |-> [id |-> i, command |-> f[i][1], status |-> f[i][2]]]

LocListings ==
    UNION { { LocListing(f) : f \in [1..n -> LocCommands \X LocStatuses] } :
            n \in 0..MaxListLen }

InitLocator ==
    /\ InitCoordinator
    /\ InitHandles
    /\ InitRoutes
    /\ fwd = NoFwd
    /\ build = NoBuild
    /\ loc \in { [NoLoc EXCEPT !.procs = l, !.port = p] :
                  l \in LocListings, p \in LocPorts }

LocatorFind ==
    /\ ~loc.called
    /\ loc' = [loc EXCEPT !.called = TRUE,
                          !.result = findExistingAgentServer(loc.procs, loc.port)]
    /\ UNCHANGED callVars
    /\ UNCHANGED sandboxVars
    /\ UNCHANGED useVars

\* findOpenhandsServer applied to the same listing and port, on a sandbox that
\* has exposed no port: null, or the handle of part_001 lines 63-71.
LocatorFindServer ==
    /\ ~loc.asked
    /\ LET found == findOpenhandsServer(loc.procs, loc.port)
       IN  loc' = [loc EXCEPT
                      !.asked = TRUE,
                      !.server = IF found = NoProc THEN NoServer
                                 ELSE [port |-> loc.port, previewUrl |-> <<>>,
                                       processId |-> found.id]]
    /\ UNCHANGED callVars
    /\ UNCHANGED sandboxVars
    /\ UNCHANGED useVars

NextLocator == LocatorFind \/ LocatorFindServer

SpecLocator == InitLocator /\ [][NextLocator]_vars

\* ------------------------------------------------- command builder harness
\* buildAgentServerCommand applied to arbitrary ports and directories, and the
\* locator applied to a listing that ends with a process launched by the command.
BuildPorts == {80, 9001, 65535, DEFAULT_PORT}

BuildDirectories ==
    { NoDirectory, DEFAULT_AGENT_SERVER_DIR, <<"/work">>, <<"/srv", "/", "my agent">> }

InitBuilder ==
    /\ InitCoordinator
    /\ InitHandles
    /\ InitRoutes
    /\ fwd = NoFwd
    /\ loc \in { [NoLoc EXCEPT !.procs = l] :
                  l \in {m \in LocListings : Len(m) <= 1} }
    /\ build \in { [NoBuild EXCEPT !.port = p, !.directory = d, !.status = st] :
                    p \in BuildPorts, d \in BuildDirectories, st \in LocStatuses }

\* The record the sandbox lists for a process launched by the built command.
BuiltRecord == [id |-> Len(loc.procs) + 1, command |-> build.command,
                status |-> build.status]

BuildCommand ==
    /\ ~build.called
    /\ LET command == buildAgentServerCommand(build.port, build.directory)
           listed == Append(loc.procs, [id |-> Len(loc.procs) + 1, command |-> command,
                                        status |-> build.status])
       IN  build' = [build EXCEPT
                        !.called = TRUE,
                        !.command = command,
                        !.again = buildAgentServerCommand(build.port, build.directory),
                        !.found = findExistingAgentServer(listed, build.port)]
    /\ UNCHANGED callVars
    /\ UNCHANGED sandboxVars
    /\ UNCHANGED <<closed, nRecalls, routeVars, loc, fwd>>

NextBuilder == BuildCommand

SpecBuilder == InitBuilder /\ [][NextBuilder]_vars

\* ------------------------------------------------------- forwarder harness
\* proxyToOpenhands applied to a handle's port on arbitrary sandbox tables.
FwdRequests == {"GET /health", "POST /api/conversations"}

FwdStatuses == {200, 404}

\* sandbox.containerFetch(request, port): the answer of the server listening on
\* the port, the sandbox's own answer when nothing listens there, or a rejection
\* when the transport fails.
ContainerFetch(req, port) ==
    LET upstreams == {i \in 1..Len(procs) : Live(procs[i]) /\ serving[i] = port}
    IN  {[kind |-> "rejected", status |-> 0, body |-> "transport error"]}
        \cup (IF upstreams = {}
              THEN {[kind |-> "response", status |-> 503, body |-> "no listener"]}
              ELSE {[kind |-> "response", status |-> st, body |-> req] :
                       st \in FwdStatuses})

\* Variant of Forward that fetches once more when the first fetch does not succeed.
ForwardRetrying(first) ==
    /\ ~fwd.called
    /\ first \in ContainerFetch(fwd.request, fwd.port)
    /\ \E second \in ContainerFetch(fwd.request, fwd.port) :
          fwd' = IF first.kind = "response" /\ first.status = 200
                 THEN [fwd EXCEPT !.called = TRUE, !.upstream = first,
                                  !.returned = first, !.nFetch = @ + 1]
                 ELSE [fwd EXCEPT !.called = TRUE, !.upstream = first,
                                  !.returned = second, !.nFetch = @ + 2]
    /\ UNCHANGED callVars
    /\ UNCHANGED sandboxVars
    /\ UNCHANGED <<closed, nRecalls, routeVars, loc, build>>

\* lines 259-265: the promise of containerFetch is returned as it is
Forward(first) ==
    /\ ~fwd.called
    /\ first \in ContainerFetch(fwd.request, fwd.port)
    /\ fwd' = [fwd EXCEPT !.called = TRUE, !.upstream = first,
                          !.returned = first, !.nFetch = @ + 1]
    /\ UNCHANGED callVars
    /\ UNCHANGED sandboxVars
    /\ UNCHANGED <<closed, nRecalls, routeVars, loc, build>>

FwdCommands ==
    { buildAgentServerCommand(DEFAULT_PORT, NoDirectory),
      buildAgentServerCommand(80, <<"/work">>) }

FwdPorts == {80, DEFAULT_PORT}

\* A table of agent-server processes; a starting or running one may serve the
\* port it was launched for.
FwdTables ==
    UNION { { LocListing(f) : f \in [1..n -> FwdCommands \X LocStatuses] } :
            n \in 0..MaxListLen }

FwdServing(table) ==
    { sv \in [1..Len(table) -> {0} \cup FwdPorts] :
        \A i \in 1..Len(table) :
            sv[i] # 0 => Live(table[i]) /\ BindsPort(table[i].command, sv[i]) }

InitForwarder ==
    /\ procs \in FwdTables
    /\ serving \in FwdServing(procs)
    /\ exposed = {}
    /\ pc = [c \in Callers |-> "idle"]
    /\ opts = [c \in Callers |-> NoOptions]
    /\ existingProcess = [c \in Callers |-> NoProc]
    /\ retryProcess = [c \in Callers |-> NoProc]
    /\ startupError = [c \in Callers |-> NoError]
    /\ process = [c \in Callers |-> NoProc]
    /\ result = [c \in Callers |-> NoResult]
    /\ nList = [c \in Callers |-> 0]
    /\ nStart = [c \in Callers |-> 0]
    /\ startedPid = [c \in Callers |-> 0]
    /\ doneBefore = [c \in Callers |-> {}]
    /\ closedAtCall = [c \in Callers |-> {}]
    /\ probedOk = {}
    /\ startLog = [invoked |-> {}, firstOnly |-> TRUE]
    /\ envFault = FALSE
    /\ nFaults = 0
    /\ InitHandles
    /\ InitRoutes
    /\ loc = NoLoc
    /\ build = NoBuild
    /\ fwd \in { [NoFwd EXCEPT !.port = p, !.request = r] :
                  p \in FwdPorts, r \in FwdRequests }

NextForwarder ==
    \E first \in ContainerFetch(fwd.request, fwd.port) : Forward(first)

SpecForwarder == InitForwarder /\ [][NextForwarder]_vars

\* ------------------------------------------------- handles in use: close()
\* Calls that ask for no preview URL, on a sandbox whose listProcesses and
\* getLogs resolve.
PlainOptions == {o \in OpenhandsOptions : ~o.exposePort}

NextClose ==
    \/ \E c \in Callers, options \in PlainOptions : Call(c, options)
    \/ \E c \in Callers : Locate(c)
    \/ \E c \in Callers : WaitExistingOk(c)
    \/ \E c \in Callers : WaitExistingFails(c, TRUE)
    \/ \E c \in Callers : StartProcessOk(c)
    \/ \E c \in Callers : StartProcessThrows(c)
    \/ \E c \in Callers : WaitNewOk(c)
    \/ \E c \in Callers : WaitNewFails(c, TRUE)
    \/ \E c \in Callers : Relocate(c)
    \/ \E c \in Callers : WaitRetryOk(c)
    \/ \E c \in Callers : WaitRetryFails(c, TRUE)
    \/ \E c \in Callers : CloseOk(c)
    \/ \E c \in Callers : CloseThrows(c)
    \/ \E c \in Callers : Forget(c)
    \/ \E i \in 1..Len(procs) : ProcessRuns(i)
    \/ \E i \in 1..Len(procs), o \in OpenhandsOptions : ProcessListens(i, PortOf(o))
    \/ \E i \in 1..Len(procs) : ProcessExits(i)

SpecClose == Init /\ [][NextClose]_vars

\* ----------------------------------------------------------- HTTP routes
\* The handler attachOpenhandsRoutes returns, built with some options, serving
\* requests.
BasePaths == {<<>>, <<"/api">>}

HandlerOptions ==
    { [port |-> o.port, directory |-> o.directory, exposePort |-> o.exposePort,
       hostname |-> o.hostname, basePath |-> b] :
         o \in OpenhandsOptions, b \in BasePaths }

RouteNames == {"/start-openhands", "/stop-openhands", "/openhands-status"}

Requests ==
    { [path |-> b \o <<n>>, preview |-> v] :
         b \in BasePaths, n \in RouteNames \cup {"/other"}, v \in BOOLEAN }

InitHandler ==
    /\ InitCoordinator
    /\ InitHandles
    /\ handlerOptions \in HandlerOptions
    /\ request = [c \in Callers |-> NoRequest]
    /\ server = [c \in Callers |-> NoServer]
    /\ response = [c \in Callers |-> NoResponse]
    /\ loc = NoLoc
    /\ fwd = NoFwd
    /\ build = NoBuild

InitServing == InitHandler /\ sequence = Untracked

NextRoutes ==
    \/ \E c \in Callers, req \in Requests : Receive(c, req)
    \/ \E c \in Callers, req \in Requests,
          m \in {"getSandboxName failed", "getSandbox failed"} : ReceiveThrows(c, req, m)
    \/ \E c \in Callers : ProxyToSandbox(c)
    \/ \E c \in Callers : ProxyToSandboxThrows(c)
    \/ \E c \in Callers : Locate(c)
    \/ \E c \in Callers : LocateThrows(c)
    \/ \E c \in Callers : WaitExistingOk(c)
    \/ \E c \in Callers, logsOk \in BOOLEAN : WaitExistingFails(c, logsOk)
    \/ \E c \in Callers : StartProcessOk(c)
    \/ \E c \in Callers : StartProcessThrows(c)
    \/ \E c \in Callers : WaitNewOk(c)
    \/ \E c \in Callers, logsOk \in BOOLEAN : WaitNewFails(c, logsOk)
    \/ \E c \in Callers : Relocate(c)
    \/ \E c \in Callers : RelocateThrows(c)
    \/ \E c \in Callers : WaitRetryOk(c)
    \/ \E c \in Callers, logsOk \in BOOLEAN : WaitRetryFails(c, logsOk)
    \/ \E c \in Callers : ExposePortOk(c)
    \/ \E c \in Callers : ExposePortThrows(c)
    \/ \E c \in Callers : StartResponds(c)
    \/ \E c \in Callers : FindServer(c)
    \/ \E c \in Callers : FindServerThrows(c)
    \/ \E c \in Callers, ok \in BOOLEAN : GetExposedPorts(c, ok)
    \/ \E c \in Callers : StopKills(c)
    \/ \E c \in Callers : StopKillThrows(c)
    \/ \E c \in Callers : StatusLists(c)
    \/ \E c \in Callers : StatusListThrows(c)
    \/ \E c \in Callers : Served(c)
    \/ \E i \in 1..Len(procs) : ProcessRuns(i)
    \/ \E i \in 1..Len(procs), o \in OpenhandsOptions : ProcessListens(i, PortOf(o))
    \/ \E i \in 1..Len(procs) : ProcessExits(i)

SpecRoutes == InitServing /\ [][NextRoutes]_vars

\* ------------------------------------------- the three routes in sequence
\* The same handler receiving requests for its three routes only: the paths are
\* those of the configured basePath and none is a preview URL's.
RouteRequests == { [path |-> RoutePath(n), preview |-> FALSE] : n \in RouteNames }

NextSequence ==
    \/ \E c \in Callers, req \in RouteRequests : Receive(c, req)
    \/ \E c \in Callers, req \in RouteRequests,
          m \in {"getSandboxName failed", "getSandbox failed"} : ReceiveThrows(c, req, m)
    \/ \E c \in Callers : ProxyToSandbox(c)
    \/ \E c \in Callers : ProxyToSandboxThrows(c)
    \/ \E c \in Callers : Locate(c)
    \/ \E c \in Callers : LocateThrows(c)
    \/ \E c \in Callers : WaitExistingOk(c)
    \/ \E c \in Callers, logsOk \in BOOLEAN : WaitExistingFails(c, logsOk)
    \/ \E c \in Callers : StartProcessOk(c)
    \/ \E c \in Callers : StartProcessThrows(c)
    \/ \E c \in Callers : WaitNewOk(c)
    \/ \E c \in Callers, logsOk \in BOOLEAN : WaitNewFails(c, logsOk)
    \/ \E c \in Callers : Relocate(c)
    \/ \E c \in Callers : RelocateThrows(c)
    \/ \E c \in Callers : WaitRetryOk(c)
    \/ \E c \in Callers, logsOk \in BOOLEAN : WaitRetryFails(c, logsOk)
    \/ \E c \in Callers : ExposePortOk(c)
    \/ \E c \in Callers : ExposePortThrows(c)
    \/ \E c \in Callers : StartResponds(c)
    \/ \E c \in Callers : FindServer(c)
    \/ \E c \in Callers : FindServerThrows(c)
    \/ \E c \in Callers, ok \in BOOLEAN : GetExposedPorts(c, ok)
    \/ \E c \in Callers : StopKills(c)
    \/ \E c \in Callers : StopKillThrows(c)
    \/ \E c \in Callers : StatusLists(c)
    \/ \E c \in Callers : StatusListThrows(c)
    \/ \E c \in Callers : Served(c)
    \/ \E i \in 1..Len(procs) : ProcessRuns(i)
    \/ \E i \in 1..Len(procs), o \in OpenhandsOptions : ProcessListens(i, PortOf(o))
    \/ \E i \in 1..Len(procs) : ProcessExits(i)

InitSequence == InitHandler /\ sequence = NoSequence

SpecSequence == InitSequence /\ [][NextSequence]_vars

\* ------------------------------------------------------------------ claims
Done(c) == pc[c] = "done"

IsHandle(c) == result[c].kind = "handle"

IsError(c) == result[c].kind = "error"

\* A listProcesses or getLogs call of c rejected and ended the call.
SandboxRejected(c) ==
    result[c].error.message \in {"listProcesses failed", "getLogs failed"}

ConfigurationFailed(c) == result[c].error.at = "createOpenhandsServer"

\* No call other than a and b overlapped the call of a.
RanAlone(a, b) ==
    \A d \in Callers \ {a, b} :
        pc[d] = "idle" \/ d \in doneBefore[a] \/ a \in doneBefore[d]

\* Call b was made after call a had returned a handle, with the same options,
\* and the process of that handle has not ended since.
InSequence(a, b) ==
    /\ a # b
    /\ a \in doneBefore[b]
    /\ RanAlone(a, b)
    /\ IsHandle(a)
    /\ opts[a] = opts[b]
    /\ Live(procs[result[a].processId])

C7_ReuseSpawnsNothing ==
    \A c \in Callers :
        existingProcess[c] # NoProc =>
            /\ nStart[c] = 0
            /\ pc[c] # "startProcess"
            /\ (IsHandle(c) => result[c].processId = existingProcess[c].id)

C7_Witness ==
    \E c \in Callers :
        /\ existingProcess[c] # NoProc
        /\ existingProcess[c].status = "starting"
        /\ IsHandle(c)
        /\ result[c].processId = existingProcess[c].id

\* C9: one call invokes startProcess at most once and listProcesses at most twice,
\* and a readiness failure on the process the recheck found ends the call with a
\* failure.
C9_SingleRecheck ==
    \A c \in Callers :
        /\ nStart[c] <= 1
        /\ nList[c] <= 2
        /\ (pc[c] = "waitRetry" => nList[c] = 2)
        /\ (result[c].error.at = "waitRetry" =>
                Done(c) /\ IsError(c) /\ nList[c] = 2)

C9_Witness ==
    \E c \in Callers :
        /\ Done(c) /\ IsError(c)
        /\ result[c].error.at = "waitRetry"
        /\ nStart[c] = 1 /\ nList[c] = 2

\* C10: the locator returns the first record in listing order whose command
\* contains the agent-server path and `--port N` or `--port=N` and whose status is
\* starting or running, and returns null exactly when there is no such record.
C10_Wanted(proc, port) ==
    /\ Includes(proc.command, DEFAULT_AGENT_SERVER_PATH)
    /\ \/ Includes(proc.command, <<"--port", " ">> \o Decimal(port))
       \/ Includes(proc.command, <<"--port", "=">> \o Decimal(port))
    /\ proc.status \in {"starting", "running"}

C10_LocatorMatching ==
    loc.called =>
        LET wanted == {i \in 1..Len(loc.procs) : C10_Wanted(loc.procs[i], loc.port)}
        IN  /\ (wanted = {} <=> loc.result = NoProc)
            /\ \A i \in wanted :
                   (\A j \in wanted : i <= j) => loc.result = loc.procs[i]
            /\ loc.result.status \notin {"stopped", "failed"}

C10_Witness ==
    /\ loc.called
    /\ Len(loc.procs) = 2
    /\ C10_Wanted(loc.procs[1], loc.port)
    /\ C10_Wanted(loc.procs[2], loc.port)
    /\ loc.procs[1] # [loc.procs[2] EXCEPT !.id = 1]
    /\ loc.result = loc.procs[1]


AllDone == \A c \in Callers : Done(c)

ValidOptions(c) == opts[c].exposePort => opts[c].hostname # NoHostname

\* The calls were made with identical, valid options on a sandbox whose
\* startProcess succeeded for the first invocation for the port and threw for
\* every later one, and no listProcesses or getLogs call rejected.
RaceSetting ==
    /\ AllDone
    /\ startLog.firstOnly
    /\ \A a, b \in Callers : opts[a] = opts[b]
    /\ \A c \in Callers : ValidOptions(c)
    /\ nFaults = 0

Converged ==
    /\ Len(procs) = 1
    /\ \A c \in Callers : IsHandle(c) /\ result[c].processId = procs[1].id

LiveMatches(port) ==
    {i \in 1..Len(procs) :
        /\ CommandMatches(procs[i].command)
        /\ PortFlagMatches(procs[i].command, port)
        /\ StatusMatches(procs[i])}

\* C3: once all calls for one port have finished (no sandbox call having
\* failed, no process having ended), the table holds exactly one starting/running
\* process matching the port and every handle references it.
C3_SingleLiveInstance ==
    ( /\ AllDone
      /\ \A a, b \in Callers : PortOf(opts[a]) = PortOf(opts[b])
      /\ ~envFault
      /\ \A c \in Callers : startupError[c] = NoError
      /\ \A i \in 1..Len(procs) : Live(procs[i]) )
    => \E i \in 1..Len(procs) :
           /\ LiveMatches(PortOf(opts[1])) = {i}
           /\ \A c \in Callers : IsHandle(c) => result[c].processId = procs[i].id

\* C4: a call whose first locate found nothing, whose readiness wait on the process
\* it started rejected, and whose recheck found that same process or nothing
\* (no later wait of the call having resolved) fails with an OpenhandsStartupError
\* carrying the port, a non-empty command and the stderr of getLogs.
C4_ReadinessTimeout ==
    \A c \in Callers :
        ( /\ Done(c)
          /\ existingProcess[c] = NoProc
          /\ startupError[c].type = "OpenhandsStartupError"
          /\ retryProcess[c].id \in {0, startedPid[c]}
          /\ retryProcess[c].status # "starting"
          /\ ~SandboxRejected(c) )
        => /\ IsError(c)
           /\ result[c].error.type = "OpenhandsStartupError"
           /\ result[c].error.port = PortOf(opts[c])
           /\ result[c].error.command # <<>>
           /\ result[c].error.stderr = StderrOf(startedPid[c])

\* C5: a call with exposePort and no hostname that ends with the configuration
\* error has invoked neither listProcesses nor startProcess.
C5_ConfigurationPrecondition ==
    \A c \in Callers :
        ( /\ Done(c)
          /\ opts[c].exposePort
          /\ opts[c].hostname = NoHostname
          /\ ConfigurationFailed(c) )
        => nList[c] = 0 /\ nStart[c] = 0

\* C6: a handle returned for a process found by the first locate references a
\* process on which some readiness wait has resolved.
C6_HandleIsReady ==
    \A c \in Callers :
        (Done(c) /\ IsHandle(c) /\ existingProcess[c] # NoProc)
            => result[c].processId \in probedOk

\* C8: after a failed spawn-and-probe the call has located twice; when the recheck
\* found nothing the call fails with the very error the spawn-and-probe raised;
\* when it found a process that is running, or starting and then ready, the
\* coordinator returns that process and the original error is not surfaced.
C8_RecheckOutcome ==
    \A c \in Callers :
        (Done(c) /\ startupError[c] # NoError) =>
            /\ nList[c] = 2
            /\ (retryProcess[c] = NoProc /\ result[c].error.message # "listProcesses failed" =>
                    IsError(c) /\ result[c].error = startupError[c])
            /\ (retryProcess[c] # NoProc /\ result[c].error.at # "waitRetry" =>
                    /\ process[c] = retryProcess[c]
                    /\ result[c].error # startupError[c]
                    /\ \/ IsHandle(c) /\ result[c].processId = retryProcess[c].id
                       \/ ConfigurationFailed(c))

C8_Witness ==
    \E c, d \in Callers :
        /\ Done(c) /\ startupError[c] # NoError
        /\ retryProcess[c] # NoProc /\ retryProcess[c].id # startedPid[c]
        /\ IsHandle(c)
        /\ Done(d) /\ startupError[d] # NoError
        /\ retryProcess[d] = NoProc /\ result[d].error = startupError[d]

\* Process i was killed before call b was made and had been launched for the
\* port call b asks for.
ClosedBefore(i, b) ==
    /\ i \in closedAtCall[b]
    /\ BindsPort(procs[i].command, PortOf(opts[b]))

\* The locates and the handle of call b avoid every process closed before it.
AvoidsClosed(b) ==
    \A i \in 1..Len(procs) :
        ClosedBefore(i, b) =>
            /\ existingProcess[b].id # i
            /\ retryProcess[b].id # i
            /\ result[b].processId # i

\* Once close() on a handle has resolved, the process of that handle is no longer
\* starting or running, whatever other handles carry its processId.
ClosedIsTerminated ==
    \A c \in Callers :
        closed[c] = "resolved" =>
            \A d \in Callers :
                (IsHandle(d) /\ result[d].processId = result[c].processId)
                    => ~Live(procs[result[d].processId])

C12_ForwardPassThrough ==
    [][ fwd' # fwd =>
          /\ fwd'.called
          /\ fwd'.nFetch = fwd.nFetch + 1
          /\ fwd'.upstream \in ContainerFetch(fwd.request, fwd.port)
          /\ fwd'.returned = fwd'.upstream
          /\ UNCHANGED <<procs, serving, exposed, nList, nStart, closed>> ]_vars

C12_Witness ==
    /\ fwd.called
    /\ fwd.returned.kind = "rejected"
    /\ \E i \in 1..Len(procs) : Live(procs[i]) /\ serving[i] = fwd.port

\* C13: the step in which the exposePort call of createOpenhandsServer settles ends
\* the call with a handle on the process ensureAgentServer returned, and kills
\* nothing; when exposePort threw, the handle's previewUrl is unset (otherwise it is
\* the URL exposePort returned and the port is exposed).
C13_ExposureFailureAbsorbed ==
    [][ \A c \in Callers :
          (pc[c] = "exposePort" /\ pc'[c] # "exposePort") =>
              /\ pc'[c] = "done"
              /\ result'[c].kind = "handle"
              /\ result'[c].processId = process[c].id
              /\ result'[c].port = PortOf(opts[c])
              /\ procs' = procs
              /\ \/ result'[c].previewUrl = <<>>
                 \/ /\ result'[c].previewUrl = PreviewUrl(PortOf(opts[c]), opts[c].hostname)
                    /\ PortOf(opts[c]) \in exposed' ]_vars

C13_Witness ==
    \E c \in Callers :
        /\ Done(c) /\ IsHandle(c)
        /\ opts[c].exposePort /\ opts[c].hostname # NoHostname
        /\ result[c].previewUrl = <<>>
        /\ result[c].processId \in probedOk
        /\ PortReady(process[c], PortOf(opts[c]))
        /\ PortOf(opts[c]) \notin exposed

Responded(c) == pc[c] = "responded"

\* The request of c names one of the three routes and is not a preview URL's.
OnRoute(c, names) ==
    /\ ~request[c].preview
    /\ \E n \in names : request[c].path = RoutePath(n)

\* The locator of the stop or status route ran and found no process.
FoundNothing(c) ==
    /\ OnRoute(c, {"/stop-openhands", "/openhands-status"})
    /\ nList[c] = 1
    /\ server[c] = NoServer
    /\ response[c].message # "listProcesses failed"

\* An error was thrown inside the branch of the route the request of c names.
ThrownInRoute(c) ==
    \/ response[c].message \in {"listProcesses failed", "kill failed"}
    \/ result[c].kind = "error"

\* An error was thrown while the request of c was handled.
ErrorThrown(c) ==
    \/ response[c].kind = "rejected"
    \/ ThrownInRoute(c)

\* C14: the stop and status routes answer 404 when their locator finds no
\* starting/running process for the configured port, and the three routes answer
\* 500 when an error is thrown inside the route's branch.
C14_RouteStatusCodes ==
    \A c \in Callers :
        Responded(c) =>
            /\ (FoundNothing(c) =>
                    response[c].kind = "json" /\ response[c].status = 404)
            /\ (OnRoute(c, RouteNames) /\ ThrownInRoute(c) =>
                    response[c].kind = "json" /\ response[c].status = 500)

\* C15: a request for one of the three routes is answered with JSON carrying a
\* boolean success field, and when an error was thrown while it was handled the
\* answer has success false and the error's message; the handler's promise does
\* not reject.
C15_NoRawException ==
    \A c \in Callers :
        (Responded(c) /\ OnRoute(c, RouteNames)) =>
            /\ response[c].kind = "json"
            /\ response[c].success \in {"true", "false"}
            /\ (ErrorThrown(c) =>
                    response[c].success = "false" /\ response[c].message # "")

\* C16: a call that fails because a sandbox capability call failed (every failure
\* but the hostname precondition) fails with an OpenhandsStartupError whose
\* context carries the port, and the id and command of the process when the call
\* had one.
C16_WrappedFailures ==
    \A c \in Callers :
        (Done(c) /\ IsError(c) /\ ~ConfigurationFailed(c)) =>
            /\ result[c].error.type = "OpenhandsStartupError"
            /\ result[c].error.port = PortOf(opts[c])
            /\ (startedPid[c] # 0 \/ existingProcess[c] # NoProc =>
                    result[c].error.processId # 0 /\ result[c].error.command # <<>>)

\* The command changes to the directory before it launches the binary.
StartsWithCd(command, directory) ==
    LET prefix == <<"cd", " ">> \o directory \o <<" ", "&&", " ">>
    IN  /\ Len(command) > Len(prefix)
        /\ SubSeq(command, 1, Len(prefix)) = prefix

\* C17: the built command is the same on every invocation for one (port,
\* directory); it starts with `cd <directory> && ` exactly when a directory other
\* than the default is given; and a starting or running process with that command
\* is matched by the locator for the same port: the locator returns it unless an
\* earlier record of the listing matches too.
C17_BuilderLocatorAgree ==
    build.called =>
        /\ build.again = build.command
        /\ (StartsWithCd(build.command, build.directory) <=>
               (build.directory # NoDirectory
                   /\ build.directory # DEFAULT_AGENT_SERVER_DIR))
        /\ (build.command[1] = "cd" <=>
               StartsWithCd(build.command, build.directory))
        /\ (build.status \in {"starting", "running"} =>
               /\ C10_Wanted(BuiltRecord, build.port)
               /\ build.found # NoProc
               /\ \/ build.found = BuiltRecord
                  \/ /\ build.found = loc.procs[1]
                     /\ C10_Wanted(loc.procs[1], build.port))

C17_Witness ==
    /\ build.called
    /\ build.directory = <<"/work">>
    /\ build.port = 80
    /\ build.status = "starting"
    /\ Len(loc.procs) = 1
    /\ StartsWithCd(build.command, build.directory)
    /\ build.found = BuiltRecord
    /\ build.found.id = 2

\* C18: the process the recheck of a call finds (and then waits on or returns) was
\* started by another call, never by the call itself.
C18_RecheckProvenance ==
    \A c \in Callers :
        retryProcess[c] # NoProc =>
            /\ retryProcess[c].id # startedPid[c]
            /\ \E d \in Callers \ {c} : startedPid[d] = retryProcess[c].id

\* The process call c located at the await named at.
LocatedAt(c, at) == IF at = "waitExisting" THEN existingProcess[c] ELSE retryProcess[c]

\* Call c returned the process p it located without waiting on it.
ReturnedDirectly(c, p) ==
    /\ process[c] = p
    /\ \/ IsHandle(c) /\ result[c].processId = p.id
       \/ ConfigurationFailed(c)

\* C19: when the readiness wait on a located process (first locate or recheck)
\* rejects and getLogs returns, the call fails with an OpenhandsStartupError
\* carrying the requested port, the located process's id and command and the
\* stderr of its getLogs, and that process had been located in status starting;
\* a process located in status running is never waited on and is returned
\* directly.
C19_LocatedProbeFailure ==
    \A c \in Callers :
        /\ \A at \in {"waitExisting", "waitRetry"} :
              (result[c].error.at = at /\ result[c].error.message # "getLogs failed") =>
                  /\ Done(c) /\ IsError(c)
                  /\ LocatedAt(c, at).status = "starting"
                  /\ result[c].error.type = "OpenhandsStartupError"
                  /\ result[c].error.port = PortOf(opts[c])
                  /\ result[c].error.processId = LocatedAt(c, at).id
                  /\ result[c].error.command = LocatedAt(c, at).command
                  /\ result[c].error.stderr = StderrOf(LocatedAt(c, at).id)
        /\ (existingProcess[c].status = "running" =>
                /\ pc[c] # "waitExisting"
                /\ result[c].error.at # "waitExisting"
                /\ (Done(c) => ReturnedDirectly(c, existingProcess[c])))
        /\ (retryProcess[c].status = "running" =>
                /\ pc[c] # "waitRetry"
                /\ result[c].error.at # "waitRetry"
                /\ (Done(c) => ReturnedDirectly(c, retryProcess[c])))

C19_Witness ==
    \E c, d \in Callers :
        /\ Done(c) /\ IsError(c)
        /\ result[c].error.at = "waitExisting"
        /\ result[c].error.type = "OpenhandsStartupError"
        /\ result[c].error.processId = existingProcess[c].id
        /\ result[c].error.stderr = "Traceback"
        /\ Done(d) /\ IsHandle(d)
        /\ retryProcess[d].status = "running"
        /\ result[d].processId = retryProcess[d].id

\* The ids call c obtained itself: from its own listings or its own startProcess.
OwnIds(c) == {existingProcess[c].id, retryProcess[c].id, startedPid[c]} \ {0}

\* C20: a call has listed the processes before it reuses, starts or returns
\* anything, and the processId of a handle it returns is the id of a record it
\* located in one of its own listings or of the process it started itself.
C20_StatelessCoordination ==
    \A c \in Callers :
        /\ (pc[c] \notin {"idle", "locate"} => nList[c] >= 1)
        /\ (nStart[c] >= 1 => nList[c] >= 1 /\ existingProcess[c] = NoProc)
        /\ (process[c] # NoProc => process[c].id \in OwnIds(c))
        /\ (IsHandle(c) => result[c].processId \in OwnIds(c))

C20_Witness ==
    \E a, b \in Callers :
        /\ a \in doneBefore[b]
        /\ IsHandle(a)
        /\ opts[a] = opts[b]
        /\ ~Live(procs[result[a].processId])
        /\ Done(b) /\ IsHandle(b)
        /\ nList[b] = 1
        /\ result[b].processId = startedPid[b]
        /\ result[b].processId # result[a].processId

\* The await call c is suspended on is a readiness wait.
Waiting(c) == pc[c] \in {"waitExisting", "waitNew", "waitRetry"}

\* In this step call c invokes sandbox.exposePort.
InvokesExposePort(c) == pc[c] # "exposePort" /\ pc'[c] = "exposePort"

\* C21: a call invokes exposePort only in the step in which its ensureAgentServer
\* returned a process (one it located as running, or one whose readiness wait has
\* just resolved) and only when its options ask for exposure with a hostname; a
\* call that fails settles without having invoked exposePort, a port becomes
\* exposed only by the exposePort of a call for that port, and a call whose
\* exposePort option is false never invokes it and returns a handle without
\* previewUrl.
C21_ExposureOrdering ==
    [][ \A c \in Callers :
          /\ InvokesExposePort(c) =>
                /\ opts[c].exposePort /\ opts[c].hostname # NoHostname
                /\ process'[c] # NoProc
                /\ process'[c].id \in {existingProcess'[c].id, retryProcess'[c].id,
                                       startedPid[c]}
                /\ \/ Waiting(c) /\ process'[c].id \in probedOk'
                   \/ pc[c] \in {"locate", "relocate"} /\ process'[c].status = "running"
          /\ (result'[c].kind = "error" /\ result[c].kind # "error") =>
                pc[c] # "exposePort" /\ exposed' = exposed
          /\ exposed' # exposed =>
                \E d \in Callers :
                    /\ pc[d] = "exposePort" /\ pc'[d] = "done"
                    /\ exposed' = exposed \cup {PortOf(opts[d])}
          /\ ~opts'[c].exposePort =>
                /\ pc'[c] # "exposePort"
                /\ result'[c].previewUrl = <<>> ]_vars

C21_Witness ==
    \E c, d \in Callers :
        /\ Done(c) /\ IsHandle(c)
        /\ opts[c].exposePort
        /\ result[c].previewUrl = PreviewUrl(PortOf(opts[c]), opts[c].hostname)
        /\ result[c].processId = startedPid[c]
        /\ result[c].processId \in probedOk
        /\ PortOf(opts[c]) \in exposed
        /\ Done(d) /\ IsError(d)
        /\ opts[d].exposePort /\ opts[d].hostname # NoHostname
        /\ ~ConfigurationFailed(d)
        /\ PortOf(opts[d]) \notin exposed

\* The awaits a call may still have before it: an upper bound on the sandbox
\* calls left to settle when the call is suspended on the await at.
AwaitsLeft(at) ==
    CASE at = "idle" -> 7
      [] at = "locate" -> 6
      [] at = "startProcess" -> 5
      [] at = "waitNew" -> 4
      [] at = "relocate" -> 3
      [] at = "waitRetry" -> 2
      [] at = "waitExisting" -> 2
      [] at = "exposePort" -> 1
      [] OTHER -> 0

\* The readiness waits call c has made or is making.
WaitsMade(c) ==
    (IF existingProcess[c].status = "starting" THEN 1 ELSE 0)
    + (IF startedPid[c] # 0 THEN 1 ELSE 0)
    + (IF retryProcess[c].status = "starting" THEN 1 ELSE 0)

\* C22: every step of a call moves it to an await with fewer awaits left (so no
\* await is made twice), a readiness wait is entered only from the locate, the
\* startProcess or the recheck of the same call, at most two are made, and no step
\* of one call moves another call; when every sandbox call settles, every call
\* that was made finishes with a handle or a failure, whatever the other calls do.
C22_BoundedCompletion ==
    /\ [][ \A c \in Callers :
             /\ pc'[c] # pc[c] =>
                   /\ AwaitsLeft(pc'[c]) < AwaitsLeft(pc[c])
                   /\ \A d \in Callers \ {c} : pc'[d] = pc[d]
             /\ (pc'[c] = "waitExisting" /\ pc[c] # "waitExisting") => pc[c] = "locate"
             /\ (pc'[c] = "waitNew" /\ pc[c] # "waitNew") => pc[c] = "startProcess"
             /\ (pc'[c] = "waitRetry" /\ pc[c] # "waitRetry") => pc[c] = "relocate"
             /\ WaitsMade(c)' <= 2
             /\ (pc'[c] = "done" /\ pc[c] # "done") => result'[c].kind \in {"handle", "error"}
        ]_vars
    /\ \A c \in Callers : (pc[c] = "locate") ~> (Done(c) /\ (IsHandle(c) \/ IsError(c)))

C22_Witness ==
    \E c, d \in Callers :
        /\ Done(c) /\ IsHandle(c)
        /\ WaitsMade(c) = 2
        /\ nList[c] = 2
        /\ retryProcess[c].id = startedPid[c]
        /\ pc[d] = "waitNew"

\* The handler is past line 109 for the request of c and inside a route's branch.
InRoute(c) == pc[c] \notin {"idle", "proxyToSandbox", "responded"}

\* The response returned for the request of c comes from the preview proxy when
\* the request is a preview URL's, and otherwise from the route its path names.
Ordered(c) ==
    /\ request[c].preview =>
          /\ response[c].kind = "proxy"
          /\ nList[c] = 0 /\ nStart[c] = 0 /\ opts[c] = NoOptions
    /\ OnRoute(c, RouteNames) => response[c].kind = "json"
    /\ OnRoute(c, {"/start-openhands"}) => opts[c] = StartOptions
    /\ OnRoute(c, {"/stop-openhands", "/openhands-status"}) =>
          opts[c] = NoOptions /\ nStart[c] = 0

\* The user's handler answered the request of c exactly when the request is
\* neither a preview URL's nor one for a route.
UserIffNeither(c) ==
    response[c].kind = "user" <=> (~request[c].preview /\ ~OnRoute(c, RouteNames))

LaunchedForPortOf(c, pid) == BindsPort(procs[pid].command, PortOf(opts[c]))

\* C24: a process a call locates (and then reuses or waits on), and the process of
\* a handle it returns, was launched for the very port the call asks for, also
\* when the decimal text of that port is a prefix of the other port's (80, 8001).
C24_PortExactness ==
    \A c \in Callers :
        /\ existingProcess[c] # NoProc => LaunchedForPortOf(c, existingProcess[c].id)
        /\ retryProcess[c] # NoProc => LaunchedForPortOf(c, retryProcess[c].id)
        /\ IsHandle(c) => LaunchedForPortOf(c, result[c].processId)

\* In this step the wrapped handler's promise for the request of c settles.
Settled(c) == pc[c] # "responded" /\ pc'[c] = "responded"

\* The stop route answers success in this step, having sent the signal to the
\* process the start route reported and to no other.
StopsStarted(c) ==
    /\ pc[c] = "kill"
    /\ server[c].processId = sequence.started
    /\ response'[c].kind = "json"
    /\ response'[c].status = 200
    /\ response'[c].success = "true"
    /\ procs' = Kill(procs, sequence.started)
    /\ ~Live(procs'[sequence.started])

\* The status route answers in this step that no server is running.
ReportsNotRunning(c) ==
    /\ response'[c].kind = "json"
    /\ response'[c].status = 200
    /\ response'[c].running = "false"

\* The start route answers in this step after its call has started a process
\* other than the killed one, which is the process it reports when it succeeds.
StartedAnother(c) ==
    /\ nStart[c] = 1
    /\ startedPid[c] \notin {0, sequence.killed}
    /\ response'[c].status = 200 => response'[c].processId = startedPid[c]

\* The step is the rejection of a sandbox call, or of getSandboxName.
Rejects == nFaults' # nFaults

\* The start route of c answers without a listProcesses or startProcess call of
\* its createOpenhandsServer having rejected.
StartUnhindered(c) ==
    /\ ~Rejects
    /\ result[c].error.message # "listProcesses failed"
    /\ startupError[c].message # "startProcess failed"

C26_LocatorsAgree ==
    (loc.called /\ loc.asked) =>
        /\ loc.server # NoServer <=> loc.result # NoProc
        /\ loc.server.processId = loc.result.id
        /\ loc.server # NoServer => loc.server.port = loc.port

C26_Witness ==
    /\ loc.called /\ loc.asked
    /\ Len(loc.procs) = 2
    /\ PortFlagMatches(loc.procs[1].command, loc.port)
    /\ CommandMatches(loc.procs[1].command)
    /\ loc.procs[1].status = "stopped"
    /\ loc.result = loc.procs[2]
    /\ loc.result.status = "starting"
    /\ loc.server.processId = 2
    /\ loc.port = 80

====
